---- MODULE Spec2Model ----
(***************************************************************************)
(* Points ledger of the backend: grant_points and spend_points             *)
(* (points/services.py) and redeem_item (shop/services.py), run by         *)
(* concurrent request threads against one transactional store.             *)
(*                                                                         *)
(* Store semantics assumed by the code (select_for_update, F()):           *)
(* READ COMMITTED isolation with exclusive row locks.  A statement sees    *)
(* the rows committed when it starts plus the transaction's own writes;    *)
(* a locking read waits for the lock holder and then re-reads the latest   *)
(* committed version of the row; locks are released at commit/rollback.    *)
(*                                                                         *)
(* Specifications: Spec (two threads, any calls of one user), SpecFit      *)
(* (grants, then two spends that together use up the balance), SpecSeq     *)
(* (one thread, every kind of argument, two users), SpecTags (two threads, *)
(* grants that name tags not yet in the registry), SpecCache (one thread   *)
(* of calls while total_points is read), SpecShop (redemptions while       *)
(* prices change), SpecLedgers (one spend on two copies of a ledger),      *)
(* SpecMessages (the UserMessage methods), SpecSearch (the search cache    *)
(* version under concurrent readers), SpecValid (SpecSeq without the calls *)
(* the argument and item checks reject), SpecChecks (one user, every value *)
(* the argument and item checks see) and SpecRace (two threads spending    *)
(* and redeeming while one of them grants).                                *)
(***************************************************************************)
EXTENDS Integers, Sequences, FiniteSets, Bags, TLC

\* ---------------------------------------------------------------- bounds
\* Points granted in total, over all users.
MaxGranted == 3

\* Version tokens generated in the search cache specification.
MaxTokens == 5

\* The clock of the message specification stops here.
MaxClock == 3

\* Redemption rows created directly (not by redeem_item).
MaxRedemptions == 2

Procs == {1, 2}

\* Python values handed to the services as points / amount.
Py(ty, v) == [ty |-> ty, v |-> v]

\* Inputs of the concurrent specification: calls of one user.
Users == {"u1"}
PointsInputs == {Py("int", 1), Py("int", 2)}
AmountInputs == {Py("int", 1), Py("int", 2), Py("int", 3)}
TagLists == {<< >>, <<"d1", "d2">>}
PriorityInputs == {"None"}
ItemInputs == {1}

\* Inputs of the sequential specification: priority tags, and also what the
\* argument checks reject (0, negative, float) or let pass (bool), for the
\* first user; plain grants and spends for a second user.
SeqUsers == {"u1", "u2"}
SeqPointsInputs ==
    PointsInputs \cup {Py("int", -1), Py("int", 0), Py("float", 2), Py("bool", 1)}
SeqAmountInputs ==
    AmountInputs \cup {Py("int", -1), Py("int", 0), Py("float", 1), Py("bool", 1)}
SeqTagLists == {<< >>, <<"a">>, <<"d1">>, <<"d1", "d2">>}
SeqPriorityInputs == {"None", "", "a", "d1"}
SeqItemInputs == {1, 2, 3, 99999}

SeqGrantInputs ==
    ({"u1"} \X SeqPointsInputs \X SeqTagLists)
    \cup ({"u2"} \X {Py("int", 1)} \X {<< >>})
SeqSpendInputs ==
    ({"u1"} \X SeqAmountInputs \X SeqPriorityInputs)
    \cup ({"u2"} \X {Py("int", 1), Py("int", 2)} \X {"None"})
SeqRedeemInputs == {"u1"} \X SeqItemInputs

\* Inputs of the shop specification: prices an item is given.
CostInputs == {1, 2}

\* Inputs of the ledger-copy specification: two sources of one user, each with
\* its remaining_points, created_at and at most one tag (so that no tag filter
\* matches a source twice), and the physical orders a copy may keep them in.
LedgerRowInputs ==
    [rem : {1, 2}, created_at : {1, 2}, tags : {{}, {"a"}, {"d1"}}]
LedgerInputs == {<<r1, r2>> : r1 \in LedgerRowInputs, r2 \in LedgerRowInputs}
LedgerPriorityInputs == {"None", "a"}
PhysicalOrders == {<<1, 2>>, <<2, 1>>}

\* Inputs of the tag specification: lists that name new tags ("A" has slug
\* "a", "zh" has an empty slug), twice, by slug, and in different orders.
TagRaceLists == {<<"A", "a", "zh">>, <<"zh", "zh", "A">>, <<"d1", "A">>}

NoCall == [op |-> "none", user |-> "u1", amt |-> Py("int", 0), prio |-> "None",
           tags |-> << >>, item |-> 0]
NoFit == [phase |-> "setup", amt |-> <<Py("int", 0), Py("int", 0)>>]
\* The points cache: per user the cached total_points, if any, and the value
\* a read of total_points has computed but not yet stored.
NoEntry == [set |-> FALSE, v |-> 0]
NoReading == [active |-> FALSE, user |-> "u1", v |-> 0]
NoCache == [stored |-> [u \in SeqUsers |-> NoEntry], reading |-> NoReading]

NoLoc == [scan |-> << >>, got |-> << >>, needed |-> 0, consumed |-> << >>,
          stage |-> 0, caller |-> "none", names |-> << >>, tags_to_add |-> << >>]

\* No ledger copied yet.
NoLedgers == [phase |-> "setup"]

\* UserMessage.objects.create(user=..., message=...) for two messages: unread,
\* read_at None (0), not deleted; no method called yet.  `now` is the clock
\* timezone.now() reads; `last` is the last method call, the update_fields of
\* its save() (empty: no save) and a bit that flips at every call.
MessageIds == {1, 2}
NoInbox ==
    [rows |-> [m \in MessageIds |->
                 [is_read |-> FALSE, read_at |-> 0, is_deleted |-> FALSE]],
     now |-> 1,
     last |-> [op |-> "none", m |-> 0, saved |-> << >>, n |-> 0]]

\* The search cache version key is not in the cache (None: 0) and nobody
\* reads it.  `made` counts the tokens generated so far: get_random_string(12)
\* gives a new token each time.  `returned` is the token each caller's last
\* get_search_cache_version call returned since the last bump (0: none).
Callers == {1, 2}
NoSearch ==
    [stored |-> 0, made |-> 0,
     at |-> [r \in Callers |-> "idle"],
     returned |-> [r \in Callers |-> 0]]

VARIABLES
    schemaCheck, \* do remaining_points and stock carry CHECK (>= 0)
    tags,        \* Tag rows
    sources,     \* PointSource rows, in created_at order
    txns,        \* PointTransaction rows (a bag: the ledger never reads their order)
    items,       \* ShopItem rows
    redemptions, \* Redemption rows
    pc,          \* position of each request thread
    call,        \* the call each thread runs or has just returned from
    loc,         \* locals of the running call
    out,         \* outcome of the call a thread has just returned from
    fit,         \* the callers' plan when two spends are to use up a balance
    cache,       \* the per-user points cache and the read that is filling it
    ledgers,     \* two copies of one ledger and the spend_points run on each
    inbox,       \* UserMessage rows and the last method called on one
    search       \* the search cache version key and its readers

\* The state of the units that run apart from the ledger's request threads.
units == <<ledgers, inbox, search>>

vars == <<schemaCheck, tags, sources, txns, items, redemptions,
          pc, call, loc, out, fit, cache, units>>

\* ---------------------------------------------------------------- helpers
Min(a, b) == IF a <= b THEN a ELSE b

RECURSIVE Rep(_, _)
Rep(x, n) == IF n <= 0 THEN << >> ELSE <<x>> \o Rep(x, n - 1)

Range(s) == {s[i] : i \in DOMAIN s}

\* isinstance(x, int): bool is a subclass of int.
IsInstanceInt(x) == x.ty \in {"int", "bool"}

\* An argument check that leaves the type out.
GrantInvalidSignOnly(points) == points.v <= 0

\* grant_points: "if not isinstance(points, int) or points <= 0"
GrantInvalid(points) == ~IsInstanceInt(points) \/ points.v <= 0

\* An argument check that lets zero pass.
SpendInvalidNegativeOnly(amount) == ~IsInstanceInt(amount) \/ amount.v < 0

\* spend_points: "if not isinstance(amount, int) or amount <= 0"
SpendInvalid(amount) == ~IsInstanceInt(amount) \/ amount.v <= 0

\* django.utils.text.slugify on the tag names used here: lower-cases ASCII,
\* drops characters outside [a-z0-9_-] (a pure CJK name gives "").
Slugify(name) ==
    CASE name = "A" -> "a"
      [] name = "zh" -> ""
      [] OTHER -> name

\* ---------------------------------------------------------------- views
Committed(rows) == {i \in DOMAIN rows : rows[i].vis = 0}

\* What transaction p sees of a row's remaining_points.
ViewRem(srcs, p, i) ==
    IF srcs[i].lock = p THEN srcs[i].cur ELSE srcs[i].remaining

RECURSIVE SumRem(_, _, _)
SumRem(srcs, u, i) ==
    IF i > Len(srcs) THEN 0
    ELSE (IF srcs[i].vis = 0 /\ srcs[i].user = u
          THEN srcs[i].remaining ELSE 0) + SumRem(srcs, u, i + 1)

\* initial_points of every source inserted so far.
RECURSIVE Granted(_)
Granted(srcs) ==
    IF srcs = << >> THEN 0 ELSE Head(srcs).initial + Granted(Tail(srcs))

\* Committed balance of a user: Sum("remaining_points") over the user's sources.
BalanceOf(srcs, u) == SumRem(srcs, u, 1)

Balance(u) == BalanceOf(sources, u)

IsDefaultTag(n) == \E t \in tags : t.name = n /\ t.is_default

\* ---------------------------------------------------------------- Init
\* Tags and shop items are set up by the administrators before the ledger is
\* used (as the tests' setUp does); a ShopItem with limited = FALSE has
\* stock = None (unlimited).
InitTags ==
    {[name |-> "d1", slug |-> "d1", is_default |-> TRUE, vis |-> 0],
     [name |-> "d2", slug |-> "d2", is_default |-> TRUE, vis |-> 0]}

InitItems ==
    (1 :> [cost |-> 1, limited |-> TRUE, stock |-> 1, is_active |-> TRUE,
           allowed |-> <<"a", "d1">>]) @@
    (2 :> [cost |-> 1, limited |-> TRUE, stock |-> 0, is_active |-> TRUE,
           allowed |-> << >>]) @@
    (3 :> [cost |-> 1, limited |-> FALSE, stock |-> 0, is_active |-> FALSE,
           allowed |-> << >>])

\* PointSource.remaining_points and ShopItem.stock hold non-negative integers;
\* whether their columns are declared so that the store rejects a negative
\* write (CHECK (>= 0)) is settled by the model classes, and both are possible.
ColumnChecks == BOOLEAN

Init ==
    /\ schemaCheck \in ColumnChecks
    /\ tags = InitTags
    /\ sources = << >>
    /\ txns = EmptyBag
    /\ items = InitItems
    /\ redemptions = << >>
    /\ pc = [p \in Procs |-> "idle"]
    /\ call = [p \in Procs |-> NoCall]
    /\ loc = [p \in Procs |-> NoLoc]
    /\ out = [p \in Procs |-> "none"]
    /\ fit = NoFit
    /\ cache = NoCache
    /\ ledgers = NoLedgers
    /\ inbox = NoInbox
    /\ search = NoSearch

\* ---------------------------------------------------------------- store
\* A commit that also deletes the sources the transaction has used up.
CommitSourcesDroppingEmpty(srcs, p) ==
    [i \in DOMAIN srcs |->
        IF srcs[i].vis = p THEN [srcs[i] EXCEPT !.vis = 0, !.lock = 0]
        ELSE IF srcs[i].lock = p
             THEN [srcs[i] EXCEPT !.remaining = srcs[i].cur, !.lock = 0,
                                  !.vis = IF srcs[i].cur = 0 THEN -1 ELSE 0]
             ELSE srcs[i]]

\* End of the atomic unit of p, successful: p's writes become the committed
\* versions, p's inserted rows become visible, p's row locks are released.
CommitSources(srcs, p) ==
    [i \in DOMAIN srcs |->
        IF srcs[i].vis = p THEN [srcs[i] EXCEPT !.vis = 0, !.lock = 0]
        ELSE IF srcs[i].lock = p
             THEN [srcs[i] EXCEPT !.remaining = srcs[i].cur, !.lock = 0]
             ELSE srcs[i]]

CommitTags(tgs, p) ==
    {IF t.vis = p THEN [t EXCEPT !.vis = 0] ELSE t : t \in tgs}

\* End of the atomic unit of p by an exception: every write of p is undone.
RollbackSources(srcs, p) ==
    [i \in DOMAIN srcs |->
        IF srcs[i].vis = p THEN [srcs[i] EXCEPT !.vis = -1, !.lock = 0]
        ELSE IF srcs[i].lock = p
             THEN [srcs[i] EXCEPT !.cur = srcs[i].remaining, !.lock = 0]
             ELSE srcs[i]]

RollbackTags(tgs, p) == {t \in tgs : t.vis # p}

\* post_save of a PointSource or PointTransaction of user u:
\* user.clear_points_cache().
ClearPointsCache(c, u) == [c EXCEPT !.stored[u] = NoEntry]

\* The call c of p ends with `result` (a return value, "ok", or the name of
\* the exception raised), which the caller of the service then handles.
Return(p, c, result) ==
    /\ pc' = [pc EXCEPT ![p] = "returned"]
    /\ call' = [call EXCEPT ![p] = c]
    /\ loc' = [loc EXCEPT ![p] = NoLoc]
    /\ out' = [out EXCEPT ![p] = result]

\* The caller is done with the result: the thread takes the next request.
Respond(p) ==
    /\ pc[p] = "returned"
    /\ pc' = [pc EXCEPT ![p] = "idle"]
    /\ call' = [call EXCEPT ![p] = NoCall]
    /\ out' = [out EXCEPT ![p] = "none"]
    /\ UNCHANGED <<schemaCheck, tags, sources, txns, items, redemptions, loc, fit, cache, units>>

\* A call may start on an idle thread.
Idle(p) == pc[p] = "idle"

\* ---------------------------------------------------------------- grant_points
\* A lookup by name alone.
TagMatchesByName(tgs, p, x) ==
    {t \in tgs : t.vis \in {0, p} /\ t.name = x}

\* Tag.objects.filter(Q(slug=x) | Q(name=x)).first(), as transaction p sees it.
TagMatches(tgs, p, x) ==
    {t \in tgs : t.vis \in {0, p} /\ (t.slug = x \/ t.name = x)}

\* A row with this name inserted by another open transaction: the unique
\* index makes get_or_create wait for that transaction to end.
TagPendingElsewhere(tgs, p, x) ==
    \E t \in tgs : t.name = x /\ t.vis \notin {0, p}

NewTag(p, x) ==
    [name |-> x,
     slug |-> IF Slugify(x) = "" THEN x ELSE Slugify(x),
     is_default |-> FALSE,
     vis |-> p]

\* The tag loop of grant_points up to its next point of interaction with
\* other transactions:
\* <<tag rows afterwards, names of tags_to_add, names not yet handled>>.
\* It stops in get_or_create at a name that matches nothing p can see while
\* another open transaction has inserted a row with that name (the INSERT
\* waits), and after an INSERT of its own when names are left.
RECURSIVE ResolveTags(_, _, _, _)
ResolveTags(names, tgs, p, acc) ==
    IF names = << >> THEN <<tgs, acc, << >>>>
    ELSE LET x == Head(names)
             m == TagMatches(tgs, p, x)
         IN IF m # {}
            THEN ResolveTags(Tail(names), tgs, p,
                             Append(acc, (CHOOSE t \in m : TRUE).name))
            ELSE IF TagPendingElsewhere(tgs, p, x)
            THEN <<tgs, acc, names>>
            ELSE <<tgs \cup {NewTag(p, x)}, Append(acc, x), Tail(names)>>

\* Without an atomic unit every row is visible as soon as it is written.
AutocommitVis(p) == 0

\* @transaction.atomic: rows written by p stay invisible to others (vis = p)
\* until the atomic unit ends.
AtomicVis(p) == p

GrantCall(u, pts, names) ==
    [NoCall EXCEPT !.op = "grant", !.user = u, !.amt = pts, !.tags = names]

\* Points of the grants that are in their tag loop (their sources are still
\* to be inserted).
WaitingPoints ==
    (IF pc[1] = "g_tags" THEN call[1].amt.v ELSE 0)
    + (IF pc[2] = "g_tags" THEN call[2].amt.v ELSE 0)

\* The tag loop from `names` on and, when it gets through,
\* PointSource.objects.create(...) and new_source.tags.set(tags_to_add);
\* else the call is still in the loop.
GrantLoop(p, c, names, acc) ==
    LET r == ResolveTags(names, tags, p, acc)
    IN /\ tags' = r[1]
       /\ IF r[3] = << >>
          THEN /\ sources' = Append(sources,
                     [user |-> c.user, initial |-> c.amt.v, remaining |-> c.amt.v,
                      cur |-> c.amt.v, tags |-> Range(r[2]),
                      vis |-> AtomicVis(p), lock |-> 0])
               /\ cache' = ClearPointsCache(cache, c.user)
               /\ pc' = [pc EXCEPT ![p] = "g_commit"]
               /\ loc' = [loc EXCEPT ![p] = NoLoc]
          ELSE /\ sources' = sources
               /\ cache' = cache
               /\ pc' = [pc EXCEPT ![p] = "g_tags"]
               /\ loc' = [loc EXCEPT ![p] =
                      [NoLoc EXCEPT !.names = r[3], !.tags_to_add = r[2]]]
       /\ call' = [call EXCEPT ![p] = c]
       /\ UNCHANGED out

\* Argument check, tag loop and PointSource.objects.create(...).
GrantBegin(p, u, pts, names) ==
    /\ Idle(p)
    /\ IF GrantInvalid(pts)
       THEN /\ Return(p, GrantCall(u, pts, names), "ValueError")
            /\ UNCHANGED <<tags, sources, cache>>
       ELSE /\ Granted(sources) + WaitingPoints + pts.v <= MaxGranted
            /\ GrantLoop(p, GrantCall(u, pts, names), names, << >>)
    /\ UNCHANGED <<schemaCheck, txns, items, redemptions, fit, units>>

\* p is in get_or_create, its INSERT waiting for the end of the transaction
\* that inserted a row with the same name.
TagWaiting(p) ==
    /\ pc[p] = "g_tags"
    /\ TagMatches(tags, p, Head(loc[p].names)) = {}
    /\ TagPendingElsewhere(tags, p, Head(loc[p].names))

\* The transaction whose uncommitted Tag row p's INSERT waits for.
TagHolder(p) ==
    (CHOOSE t \in tags : t.name = Head(loc[p].names) /\ t.vis \notin {0, p}).vis

\* The tag loop goes on; after a wait, get_or_create returns the row the other
\* transaction committed, or inserts its own if that one was rolled back.
GrantTags(p) ==
    /\ pc[p] = "g_tags"
    /\ ~TagWaiting(p)
    /\ GrantLoop(p, call[p], loc[p].names, loc[p].tags_to_add)
    /\ UNCHANGED <<schemaCheck, txns, items, redemptions, fit, units>>

\* PointTransaction.description: redeem_item passes f"兑换商品: {item.name}",
\* written here as the id of the item (item names are distinct); the text of
\* every other caller is written 0.
DescriptionOf(c) == IF c.op = "redeem" THEN c.item ELSE 0

\* PointTransaction.objects.create(... EARN ...)
EarnRow(c) ==
    [user |-> c.user, points |-> c.amt.v, type |-> "EARN",
     description |-> DescriptionOf(c), consumed |-> {}]

\* The EARN transaction is created and the atomic unit ends.
GrantCommit(p) ==
    /\ pc[p] = "g_commit"
    /\ tags' = CommitTags(tags, p)
    /\ sources' = CommitSources(sources, p)
    /\ txns' = txns (+) SetToBag({EarnRow(call[p])})
    /\ cache' = ClearPointsCache(cache, call[p].user)
    /\ Return(p, call[p], "ok")
    /\ UNCHANGED <<schemaCheck, items, redemptions, fit, units>>

\* ---------------------------------------------------------------- spend_points
\* "if priority_tag_name:" (None and "" are falsy).
PriorityGiven(prio) == prio \notin {"None", ""}

\* The filters without user=user.
RowCountAnyUser(srcs, p, stage, u, prio, excluded, i) ==
    IF \/ srcs[i].vis # 0
       \/ ViewRem(srcs, p, i) <= 0
       \/ (stage \in {2, 3} /\ i \in excluded)
    THEN 0
    ELSE CASE stage = 1 -> Cardinality({t \in srcs[i].tags : t = prio})
           [] stage = 2 -> Cardinality({t \in srcs[i].tags : IsDefaultTag(t)})
           [] OTHER -> 1

\* How many rows of a statement's result are source i.  Stage 0 is the balance
\* pre-check, 1 the priority tier, 2 the default tier, 3 the fallback tier.
\* The tag filters are joins over the tags relation: a source appears once per
\* matching tag row (no distinct()), so once per is_default tag in tier 2.
RowCount(srcs, p, stage, u, prio, excluded, i) ==
    IF \/ srcs[i].vis # 0
       \/ srcs[i].user # u
       \/ ViewRem(srcs, p, i) <= 0
       \/ (stage \in {2, 3} /\ i \in excluded)
    THEN 0
    ELSE CASE stage = 1 -> Cardinality({t \in srcs[i].tags : t = prio})
           [] stage = 2 -> Cardinality({t \in srcs[i].tags : IsDefaultTag(t)})
           [] OTHER -> 1

\* The rows of the statement, ordered by created_at.
RECURSIVE QueryFrom(_, _, _, _, _, _, _)
QueryFrom(srcs, p, stage, u, prio, excluded, i) ==
    IF i > Len(srcs) THEN << >>
    ELSE Rep(i, RowCount(srcs, p, stage, u, prio, excluded, i))
         \o QueryFrom(srcs, p, stage, u, prio, excluded, i + 1)

Query(srcs, p, stage, u, prio, excluded) ==
    QueryFrom(srcs, p, stage, u, prio, excluded, 1)

\* A locking read passes over the rows its transaction already holds without
\* waiting: <<rows still to lock, rows fetched so far>>.
RECURSIVE Advance(_, _, _, _)
Advance(srcs, p, scan, got) ==
    IF scan # << >> /\ srcs[Head(scan)].lock = p
    THEN Advance(srcs, p, Tail(scan),
                 Append(got, [id |-> Head(scan), rem |-> srcs[Head(scan)].cur]))
    ELSE <<scan, got>>

RECURSIVE SumGot(_)
SumGot(g) == IF g = << >> THEN 0 ELSE Head(g).rem + SumGot(Tail(g))

\* The whole source is taken, whatever is needed.
DeductAmountWhole(rem, needed) == rem

\* deduct_amount = min(source.remaining_points, needed)
DeductAmount(rem, needed) == Min(rem, needed)

\* The loop of _deduct_from_sources over the fetched rows.  Every UPDATE is
\* "remaining_points = F(remaining_points) - deduct_amount" on the row as the
\* store holds it; with a CHECK (remaining_points >= 0) on the column a
\* negative result fails the statement (IntegrityError).
RECURSIVE DeductLoop(_, _, _, _)
DeductLoop(g, needed, srcs, consumed) ==
    IF g = << >> \/ needed <= 0
    THEN [srcs |-> srcs, needed |-> needed, consumed |-> consumed, err |-> FALSE]
    ELSE LET i == Head(g).id
             d == DeductAmount(Head(g).rem, needed)
             c == srcs[i].cur - d
         IN IF schemaCheck /\ c < 0
            THEN [srcs |-> srcs, needed |-> needed, consumed |-> consumed, err |-> TRUE]
            ELSE DeductLoop(Tail(g), needed - d,
                            [srcs EXCEPT ![i].cur = c], Append(consumed, i))

\* Without the fallback tier.
NextStageNoFallback(stage, needed, prio) ==
    CASE stage = 0 /\ PriorityGiven(prio) -> 1
      [] stage = 0 -> 2
      [] stage = 1 /\ needed > 0 -> 2
      [] OTHER -> 4

\* The tier whose statement runs after `stage` with `needed` still to deduct
\* (4: no tier is left, the final check follows).
NextStage(stage, needed, prio) ==
    CASE stage = 0 /\ PriorityGiven(prio) -> 1
      [] stage = 0 -> 2
      [] stage = 1 /\ needed > 0 -> 2
      [] stage = 2 /\ needed > 0 -> 3
      [] OTHER -> 4

\* The call raises: the atomic unit is rolled back.
Raise(p, exc) ==
    /\ sources' = RollbackSources(sources, p)
    /\ txns' = txns
    /\ tags' = RollbackTags(tags, p)
    /\ Return(p, call[p], exc)

\* spend_points is entered (by a caller holding the call in `c`): argument
\* check, then the pre-check statement (all sources of the user with
\* remaining_points > 0, FOR UPDATE) is issued.
EnterSpend(p, c, caller) ==
    IF SpendInvalid(c.amt)
    THEN /\ Return(p, c, "ValueError")
         /\ UNCHANGED <<tags, sources, txns>>
    ELSE /\ pc' = [pc EXCEPT ![p] = "sp_lock"]
         /\ call' = [call EXCEPT ![p] = c]
         /\ loc' = [loc EXCEPT ![p] =
                [NoLoc EXCEPT !.scan = Query(sources, p, 0, c.user, c.prio, {}),
                              !.needed = c.amt.v, !.caller = caller]]
         /\ UNCHANGED <<tags, sources, txns, out>>

SpendBegin(p, u, amt, prio) ==
    LET c == [NoCall EXCEPT !.op = "spend", !.user = u, !.amt = amt, !.prio = prio]
    IN /\ Idle(p)
       /\ EnterSpend(p, c, "spend")
       /\ UNCHANGED <<schemaCheck, items, redemptions, fit, cache, units>>

\* A read that does not wait for the holder of a row.
SpendLockNoWait(p) ==
    /\ pc[p] = "sp_lock"
    /\ loc[p].scan # << >>
    /\ LET i == Head(loc[p].scan)
       IN /\ TRUE
          /\ IF sources[i].cur > 0
             THEN /\ sources' = [sources EXCEPT ![i].lock = p]
                  /\ LET a == Advance(sources', p, Tail(loc[p].scan),
                                       Append(loc[p].got, [id |-> i, rem |-> sources[i].cur]))
                     IN loc' = [loc EXCEPT ![p].scan = a[1], ![p].got = a[2]]
             ELSE /\ loc' = [loc EXCEPT ![p].scan = Tail(@)]
                  /\ UNCHANGED sources
    /\ UNCHANGED <<schemaCheck, tags, txns, items, redemptions, pc, call, out, fit, cache, units>>

\* A locking read takes the next row of its result: it waits while another
\* transaction holds the row, then re-reads the row's latest version and keeps
\* it only if it still has remaining_points > 0.
SpendLock(p) ==
    /\ pc[p] = "sp_lock"
    /\ loc[p].scan # << >>
    /\ LET i == Head(loc[p].scan)
       IN /\ sources[i].lock \in {0, p}
          /\ IF sources[i].cur > 0
             THEN /\ sources' = [sources EXCEPT ![i].lock = p]
                  /\ LET a == Advance(sources', p, Tail(loc[p].scan),
                                       Append(loc[p].got, [id |-> i, rem |-> sources[i].cur]))
                     IN loc' = [loc EXCEPT ![p].scan = a[1], ![p].got = a[2]]
             ELSE /\ loc' = [loc EXCEPT ![p].scan = Tail(@)]
                  /\ UNCHANGED sources
    /\ UNCHANGED <<schemaCheck, tags, txns, items, redemptions, pc, call, out, fit, cache, units>>

\* The statement of tier `stage` is issued.
IssueTier(p, srcs, stage, needed, consumed) ==
    /\ pc' = [pc EXCEPT ![p] = "sp_lock"]
    /\ LET a == Advance(srcs, p,
                         Query(srcs, p, stage, call[p].user, call[p].prio, Range(consumed)),
                         << >>)
       IN loc' = [loc EXCEPT ![p].scan = a[1],
                          ![p].got = a[2],
                          ![p].stage = stage,
                          ![p].needed = needed,
                          ![p].consumed = consumed]
    /\ UNCHANGED <<call, out>>

\* The pre-check: current_balance < amount raises InsufficientPointsError,
\* else the first tier's statement is issued.
SpendPrecheck(p) ==
    /\ pc[p] = "sp_lock"
    /\ loc[p].scan = << >>
    /\ loc[p].stage = 0
    /\ IF SumGot(loc[p].got) < call[p].amt.v
       THEN Raise(p, "InsufficientPointsError")
       ELSE /\ IssueTier(p, sources, NextStage(0, loc[p].needed, call[p].prio),
                         loc[p].needed, << >>)
            /\ UNCHANGED <<tags, sources, txns>>
    /\ UNCHANGED <<schemaCheck, items, redemptions, fit, cache, units>>

\* Lines 84-96 of redeem_item, after spend_points returned transaction `tx`:
\* the Redemption row and the stock decrement (stock = F(stock) - 1).
RedemptionRow(p, tx) ==
    [user |-> call[p].user, item |-> call[p].item,
     points_cost_at_redemption |-> call[p].amt.v,
     transaction |-> tx, status |-> "COMPLETED"]

StockAfterRedeem(its, id) ==
    IF its[id].limited THEN [its EXCEPT ![id].stock = @ - 1] ELSE its

\* With a CHECK (stock >= 0) on the column the decrement of an empty stock
\* fails the statement.
StockRejected(its, id) ==
    schemaCheck /\ its[id].limited /\ its[id].stock - 1 < 0

\* A SPEND row that records the amount unsigned.
SpendRowUnsigned(c, consumed) ==
    [user |-> c.user, points |-> c.amt.v, type |-> "SPEND",
     description |-> DescriptionOf(c),
     consumed |-> Range(consumed)]

\* PointTransaction.objects.create(... SPEND ...); consumed_sources.set(...)
SpendRow(c, consumed) ==
    [user |-> c.user, points |-> 0 - c.amt.v, type |-> "SPEND",
     description |-> DescriptionOf(c),
     consumed |-> Range(consumed)]

\* The three tiers are done with nothing left to deduct: the SPEND transaction
\* is created and spend_points returns.  Called directly, its atomic unit
\* commits; called by redeem_item, the redemption is recorded before the
\* outer atomic unit commits.
SpendFinish(p, srcs, consumed) ==
    /\ sources' = CommitSources(srcs, p)
    /\ txns' = txns (+) SetToBag({SpendRow(call[p], consumed)})
    /\ UNCHANGED tags
    /\ IF loc[p].caller = "redeem"
       THEN /\ redemptions' = Append(redemptions, RedemptionRow(p, SpendRow(call[p], consumed)))
            /\ items' = StockAfterRedeem(items, call[p].item)
       ELSE UNCHANGED <<items, redemptions>>
    /\ Return(p, call[p], "ok")

\* A tier: the loop of _deduct_from_sources over the rows it locked, then the
\* next tier's statement, or the final check and the transaction record.
SpendTier(p) ==
    /\ pc[p] = "sp_lock"
    /\ loc[p].scan = << >>
    /\ loc[p].stage \in {1, 2, 3}
    /\ LET r == DeductLoop(loc[p].got, loc[p].needed, sources, loc[p].consumed)
           ns == NextStage(loc[p].stage, r.needed, call[p].prio)
           saved == r.consumed # loc[p].consumed \/ (~r.err /\ ns > 3 /\ r.needed <= 0)
       IN /\ cache' = IF saved THEN ClearPointsCache(cache, call[p].user) ELSE cache
          /\ IF r.err
             THEN /\ Raise(p, "IntegrityError")
                  /\ UNCHANGED <<items, redemptions>>
             ELSE IF ns <= 3
             THEN /\ sources' = r.srcs
                  /\ IssueTier(p, r.srcs, ns, r.needed, r.consumed)
                  /\ UNCHANGED <<tags, txns, items, redemptions>>
             ELSE IF r.needed > 0
             THEN /\ Raise(p, "Exception")
                  /\ UNCHANGED <<items, redemptions>>
             ELSE IF loc[p].caller = "redeem" /\ StockRejected(items, call[p].item)
             THEN /\ Raise(p, "IntegrityError")
                  /\ UNCHANGED <<items, redemptions>>
             ELSE SpendFinish(p, r.srcs, r.consumed)
    /\ UNCHANGED <<schemaCheck, fit, units>>

\* Two transactions each wait for a row the other holds: the store ends one of
\* them with an error (deadlock detected), which rolls its atomic unit back.
Waiting(p) ==
    /\ pc[p] = "sp_lock"
    /\ loc[p].scan # << >>
    /\ sources[Head(loc[p].scan)].lock \notin {0, p}

Holder(p) == sources[Head(loc[p].scan)].lock

DeadlockAbort(p) ==
    /\ Waiting(p)
    /\ Waiting(Holder(p))
    /\ Holder(Holder(p)) = p
    /\ Raise(p, "OperationalError")
    /\ UNCHANGED <<schemaCheck, items, redemptions, fit, cache, units>>

\* Two grants each wait, in get_or_create, for a Tag row the other inserted:
\* the store ends one of them with an error (deadlock detected).
GrantDeadlock(p) ==
    /\ TagWaiting(p)
    /\ TagWaiting(TagHolder(p))
    /\ TagHolder(TagHolder(p)) = p
    /\ Raise(p, "OperationalError")
    /\ UNCHANGED <<schemaCheck, items, redemptions, fit, cache, units>>

\* ---------------------------------------------------------------- redeem_item
\* def spend_points(user, amount, description, priority_tag_name=None)
SpendPointsParams == {"user", "amount", "description", "priority_tag_name"}
SpendPointsRequired == {"user", "amount", "description"}

\* A call that names the user parameter as spend_points declares it.
RedeemSpendKwargsByUser == {"user", "amount", "description", "priority_tag_name"}

\* The keyword arguments of the spend_points(...) call in redeem_item.
RedeemSpendKwargs == {"user_profile", "amount", "description", "priority_tag_name"}

\* Python binds a keyword call only if every keyword names a parameter and
\* every parameter without default is given; else the call raises TypeError.
CallBinds(kwargs, params, required) ==
    kwargs \subseteq params /\ required \subseteq kwargs

\* priority_tag = allowed_tags[0] if allowed_tags else None
PriorityTagOf(item) == IF item.allowed = << >> THEN "None" ELSE item.allowed[1]

\* An item is sold out only when its stock is below zero.
OutOfStockBelowZero(item) == item.limited /\ item.stock < 0

\* if item.stock is not None and item.stock <= 0
OutOfStock(item) == item.limited /\ item.stock <= 0

\* A redeem_item that creates the Redemption row first, outside the atomic
\* unit, and then calls spend_points.
RedeemItemRecordFirst(p, u, id) ==
    LET found == id \in DOMAIN items
        c == [NoCall EXCEPT !.op = "redeem", !.user = u, !.item = id,
                            !.amt = IF found THEN Py("int", items[id].cost) ELSE @,
                            !.prio = IF found THEN PriorityTagOf(items[id]) ELSE @]
    IN /\ Idle(p)
       /\ IF ~found
          THEN Return(p, c, "RedemptionError(not_found)") /\ UNCHANGED redemptions
          ELSE IF ~items[id].is_active
          THEN Return(p, c, "RedemptionError(inactive)") /\ UNCHANGED redemptions
          ELSE IF OutOfStock(items[id])
          THEN Return(p, c, "RedemptionError(out_of_stock)") /\ UNCHANGED redemptions
          ELSE /\ Return(p, c, "TypeError")
               /\ redemptions' = Append(redemptions,
                      [user |-> u, item |-> id,
                       points_cost_at_redemption |-> items[id].cost,
                       transaction |-> "none", status |-> "COMPLETED"])
       /\ UNCHANGED <<schemaCheck, tags, sources, txns, items, fit, cache, units>>

RedeemItem(p, u, id) ==
    LET found == id \in DOMAIN items
        c == [NoCall EXCEPT !.op = "redeem", !.user = u, !.item = id,
                            !.amt = IF found THEN Py("int", items[id].cost) ELSE @,
                            !.prio = IF found THEN PriorityTagOf(items[id]) ELSE @]
    IN /\ Idle(p)
       /\ IF ~found
          THEN Return(p, c, "RedemptionError(not_found)") /\ UNCHANGED <<tags, sources, txns>>
          ELSE IF ~items[id].is_active
          THEN Return(p, c, "RedemptionError(inactive)") /\ UNCHANGED <<tags, sources, txns>>
          ELSE IF OutOfStock(items[id])
          THEN Return(p, c, "RedemptionError(out_of_stock)") /\ UNCHANGED <<tags, sources, txns>>
          ELSE IF ~CallBinds(RedeemSpendKwargs, SpendPointsParams, SpendPointsRequired)
          THEN Return(p, c, "TypeError") /\ UNCHANGED <<tags, sources, txns>>
          ELSE EnterSpend(p, c, "redeem")
       /\ UNCHANGED <<schemaCheck, items, redemptions, fit, cache, units>>

\* ---------------------------------------------------------------- system
\* Two request threads run calls concurrently.
Next ==
    \E p \in Procs :
        \/ \E u \in Users, pts \in PointsInputs, names \in TagLists :
              GrantBegin(p, u, pts, names)
        \/ GrantCommit(p)
        \/ \E u \in Users, amt \in AmountInputs, prio \in PriorityInputs :
              SpendBegin(p, u, amt, prio)
        \/ SpendLock(p)
        \/ SpendPrecheck(p)
        \/ SpendTier(p)
        \/ DeadlockAbort(p)
        \/ \E u \in Users, id \in ItemInputs : RedeemItem(p, u, id)
        \/ Respond(p)

Spec == Init /\ [][Next]_vars

\* Two threads of one user: thread 1 grants one point at a time, both threads
\* spend any amount and redeem item 1, in every interleaving.
NextRace ==
    \/ \E names \in TagLists : GrantBegin(1, "u1", Py("int", 1), names)
    \/ GrantCommit(1)
    \/ \E p \in Procs, amt \in AmountInputs : SpendBegin(p, "u1", amt, "None")
    \/ \E p \in Procs : SpendLock(p)
    \/ \E p \in Procs : SpendPrecheck(p)
    \/ \E p \in Procs : SpendTier(p)
    \/ \E p \in Procs, id \in ItemInputs : RedeemItem(p, "u1", id)
    \/ \E p \in Procs : Respond(p)

SpecRace == Init /\ [][NextRace]_vars

\* Two spends that together use up a balance.  Thread 1 first sets the ledger
\* up by grants; then the callers settle on two amounts that add up to the
\* user's balance, and each thread runs one spend_points call with its amount,
\* at any time and in any interleaving with the other.
FitStart(a1, a2) ==
    /\ fit.phase = "setup"
    /\ \A p \in Procs : Idle(p)
    /\ a1.v + a2.v = Balance("u1")
    /\ fit' = [phase |-> "running", amt |-> <<a1, a2>>]
    /\ UNCHANGED <<schemaCheck, tags, sources, txns, items, redemptions,
                   pc, call, loc, out, cache, units>>

NextFit ==
    \/ \E pts \in PointsInputs, names \in TagLists :
          fit.phase = "setup" /\ GrantBegin(1, "u1", pts, names)
    \/ GrantCommit(1)
    \/ fit.phase = "setup" /\ Respond(1)
    \/ \E a1 \in AmountInputs, a2 \in AmountInputs : FitStart(a1, a2)
    \/ \E p \in Procs :
          fit.phase = "running" /\ SpendBegin(p, "u1", fit.amt[p], "None")
    \/ \E p \in Procs : SpendLock(p)
    \/ \E p \in Procs : SpendPrecheck(p)
    \/ \E p \in Procs : SpendTier(p)

SpecFit == Init /\ [][NextFit]_vars

\* One request thread runs calls one after the other, with every kind of input.
NextSeq ==
    \/ \E g \in SeqGrantInputs : GrantBegin(1, g[1], g[2], g[3])
    \/ GrantCommit(1)
    \/ \E c \in SeqSpendInputs : SpendBegin(1, c[1], c[2], c[3])
    \/ SpendLock(1)
    \/ SpendPrecheck(1)
    \/ SpendTier(1)
    \/ \E r \in SeqRedeemInputs : RedeemItem(1, r[1], r[2])
    \/ Respond(1)

SpecSeq == Init /\ [][NextSeq]_vars

\* One thread, two users, every call whose arguments pass the argument checks
\* and, for a redemption, the item checks: the calls that can reach the ledger.
\* Grants are untagged or carry both default tags.
ValidGrantInputs == {g \in SeqGrantInputs : g[2] \in PointsInputs /\ g[3] \in TagLists}
ValidSpendInputs == {c \in SeqSpendInputs : c[2] \in AmountInputs}

NextValid ==
    \/ \E g \in ValidGrantInputs : GrantBegin(1, g[1], g[2], g[3])
    \/ GrantCommit(1)
    \/ \E c \in ValidSpendInputs : SpendBegin(1, c[1], c[2], c[3])
    \/ SpendLock(1)
    \/ SpendPrecheck(1)
    \/ SpendTier(1)
    \/ \E u \in SeqUsers, id \in ItemInputs : RedeemItem(1, u, id)
    \/ Respond(1)

SpecValid == Init /\ [][NextValid]_vars

\* One thread, one user: every points and amount value, valid or not, with and
\* without a tag name that does not exist yet, and every item id.
CheckedGrantInputs ==
    {g \in SeqGrantInputs : g[1] = "u1" /\ g[3] \in {<< >>, <<"a">>}}
CheckedSpendInputs == {c \in SeqSpendInputs : c[1] = "u1" /\ c[3] = "None"}

NextChecks ==
    \/ \E g \in CheckedGrantInputs : GrantBegin(1, g[1], g[2], g[3])
    \/ GrantCommit(1)
    \/ \E c \in CheckedSpendInputs : SpendBegin(1, c[1], c[2], c[3])
    \/ SpendLock(1)
    \/ SpendPrecheck(1)
    \/ SpendTier(1)
    \/ \E r \in SeqRedeemInputs : RedeemItem(1, r[1], r[2])
    \/ Respond(1)

SpecChecks == Init /\ [][NextChecks]_vars

\* ---------------------------------------------------------------- total_points
\* A read of user.total_points that finds no cached value: the sum of
\* remaining_points over the user's sources, as committed, is computed.
TotalPointsCompute(u) ==
    /\ ~cache.stored[u].set
    /\ ~cache.reading.active
    /\ cache' = [cache EXCEPT !.reading =
                     [active |-> TRUE, user |-> u, v |-> Balance(u)]]
    /\ UNCHANGED <<schemaCheck, tags, sources, txns, items, redemptions,
                   pc, call, loc, out, fit, units>>

\* The value computed is put in the cache and returned.
TotalPointsStore ==
    /\ cache.reading.active
    /\ cache' = [cache EXCEPT
                     !.stored[cache.reading.user] = [set |-> TRUE, v |-> cache.reading.v],
                     !.reading = NoReading]
    /\ UNCHANGED <<schemaCheck, tags, sources, txns, items, redemptions,
                   pc, call, loc, out, fit, units>>

\* One thread grants and spends for a user while the points page of that
\* user is being read.
NextCache ==
    \/ \E pts \in PointsInputs : GrantBegin(1, "u1", pts, << >>)
    \/ GrantCommit(1)
    \/ \E a \in AmountInputs : SpendBegin(1, "u1", a, "None")
    \/ SpendLock(1)
    \/ SpendPrecheck(1)
    \/ SpendTier(1)
    \/ Respond(1)
    \/ TotalPointsCompute("u1")
    \/ TotalPointsStore

SpecCache == Init /\ [][NextCache]_vars

\* ------------------------------------------------- spend_points on a copy
\* order_by("created_at"): the first n rows of the physical order `ord`, sorted
\* by created_at; rows with equal created_at stay in the order the store
\* happens to hold them in.
RECURSIVE ByCreatedAt(_, _, _)
ByCreatedAt(rows, ord, n) ==
    IF n = 0 THEN << >>
    ELSE LET s == ByCreatedAt(rows, ord, n - 1)
             i == ord[n]
             k == Cardinality({j \in DOMAIN s :
                                 rows[s[j]].created_at <= rows[i].created_at})
         IN SubSeq(s, 1, k) \o <<i>> \o SubSeq(s, k + 1, Len(s))

\* The result of one tier's statement on a copy: the sources with
\* remaining_points > 0 that pass the tier's filter, once per matching tag row.
RECURSIVE LedgerQuery(_, _, _, _, _)
LedgerQuery(rows, rem, stage, prio, scan) ==
    IF scan = << >> THEN << >>
    ELSE LET i == Head(scan)
             n == IF rem[i] <= 0 THEN 0
                  ELSE CASE stage = 1 -> Cardinality({t \in rows[i].tags : t = prio})
                         [] stage = 2 -> Cardinality({t \in rows[i].tags : IsDefaultTag(t)})
                         [] OTHER -> 1
         IN Rep(i, n) \o LedgerQuery(rows, rem, stage, prio, Tail(scan))

\* _deduct_from_sources on a copy.
RECURSIVE LedgerDeduct(_, _, _, _)
LedgerDeduct(q, fetched, st, stage) ==
    IF q = << >> \/ st.needed <= 0 THEN st
    ELSE LET i == Head(q)
             d == DeductAmount(fetched[i], st.needed)
         IN LedgerDeduct(Tail(q), fetched,
                         [st EXCEPT !.rem[i] = @ - d, !.needed = @ - d,
                                    !.consumed = Append(@, i)],
                         stage)

\* The tiers of spend_points from `stage` on, then the final check.
RECURSIVE LedgerTiers(_, _, _, _, _)
LedgerTiers(rows, ord, prio, stage, st) ==
    IF stage = 4
    THEN [done |-> TRUE, rem |-> st.rem, consumed |-> st.consumed,
          out |-> IF st.needed > 0 THEN "Exception" ELSE "ok"]
    ELSE LET scan == SelectSeq(ByCreatedAt(rows, ord, Len(ord)),
                               LAMBDA i : stage = 1 \/ i \notin Range(st.consumed))
             nst == LedgerDeduct(LedgerQuery(rows, st.rem, stage, prio, scan),
                                 st.rem, st, stage)
         IN LedgerTiers(rows, ord, prio, NextStage(stage, nst.needed, prio), nst)

\* spend_points(user, amount, description, priority_tag_name) run alone on a
\* copy of the ledger that holds its rows in the physical order `ord`.
LedgerSpendOn(rows, ord, amount, prio) ==
    LET rem == [i \in DOMAIN rows |-> rows[i].rem]
    IN IF rem[1] + rem[2] < amount
       THEN [done |-> TRUE, rem |-> rem, consumed |-> << >>,
             out |-> "InsufficientPointsError"]
       ELSE LedgerTiers(rows, ord, prio, NextStage(0, amount, prio),
                        [rem |-> rem, needed |-> amount, consumed |-> << >>])

NoRun == [done |-> FALSE, rem |-> << >>, consumed |-> << >>, out |-> "none"]

\* One ledger state is copied twice; the same call is to run on each copy.
LedgerSetup(rows, amount, prio) ==
    /\ ledgers.phase = "setup"
    /\ ledgers' = [phase |-> "run", rows |-> rows, amount |-> amount,
                   prio |-> prio, res |-> <<NoRun, NoRun>>]
    /\ UNCHANGED <<schemaCheck, tags, sources, txns, items, redemptions,
                   pc, call, loc, out, fit, cache, inbox, search>>

\* The call runs on copy k.
LedgerSpend(k, ord) ==
    /\ ledgers.phase = "run"
    /\ ~ledgers.res[k].done
    /\ ledgers' = [ledgers EXCEPT !.res[k] =
           LedgerSpendOn(ledgers.rows, ord, ledgers.amount, ledgers.prio)]
    /\ UNCHANGED <<schemaCheck, tags, sources, txns, items, redemptions,
                   pc, call, loc, out, fit, cache, inbox, search>>

NextLedgers ==
    \/ \E rows \in LedgerInputs, a \in {x.v : x \in AmountInputs},
          prio \in LedgerPriorityInputs : LedgerSetup(rows, a, prio)
    \/ \E k \in {1, 2}, ord \in PhysicalOrders : LedgerSpend(k, ord)

SpecLedgers == Init /\ [][NextLedgers]_vars

\* ------------------------------------------------------------ UserMessage
\* Time passes.
Tick ==
    /\ inbox.now < MaxClock
    /\ inbox' = [inbox EXCEPT !.now = @ + 1]
    /\ UNCHANGED <<schemaCheck, tags, sources, txns, items, redemptions,
                   pc, call, loc, out, fit, cache, ledgers, search>>

MethodCall(op, m, row, saved) ==
    /\ inbox' = [inbox EXCEPT !.rows[m] = row,
                              !.last = [op |-> op, m |-> m, saved |-> saved,
                                        n |-> 1 - inbox.last.n]]
    /\ UNCHANGED <<schemaCheck, tags, sources, txns, items, redemptions,
                   pc, call, loc, out, fit, cache, ledgers, search>>

MarkAsReadAlways(m) ==
    MethodCall("mark_as_read", m,
               [inbox.rows[m] EXCEPT !.is_read = TRUE, !.read_at = inbox.now],
               <<"is_read", "read_at">>)

\* UserMessage.mark_as_read
MarkAsRead(m) ==
    IF ~inbox.rows[m].is_read
    THEN MethodCall("mark_as_read", m,
                    [inbox.rows[m] EXCEPT !.is_read = TRUE, !.read_at = inbox.now],
                    <<"is_read", "read_at">>)
    ELSE MethodCall("mark_as_read", m, inbox.rows[m], << >>)

\* UserMessage.mark_as_unread
MarkAsUnread(m) ==
    IF inbox.rows[m].is_read
    THEN MethodCall("mark_as_unread", m,
                    [inbox.rows[m] EXCEPT !.is_read = FALSE, !.read_at = 0],
                    <<"is_read", "read_at">>)
    ELSE MethodCall("mark_as_unread", m, inbox.rows[m], << >>)

\* UserMessage.soft_delete
SoftDelete(m) ==
    IF ~inbox.rows[m].is_deleted
    THEN MethodCall("soft_delete", m,
                    [inbox.rows[m] EXCEPT !.is_deleted = TRUE], <<"is_deleted">>)
    ELSE MethodCall("soft_delete", m, inbox.rows[m], << >>)

NextMessages ==
    \/ Tick
    \/ \E m \in MessageIds : MarkAsRead(m)
    \/ \E m \in MessageIds : MarkAsUnread(m)
    \/ \E m \in MessageIds : SoftDelete(m)

SpecMessages == Init /\ [][NextMessages]_vars

\* --------------------------------------------------- search cache version
\* get_search_cache_version, first half: version = cache.get(KEY); a version
\* that is not None is returned.
GetVersionRead(r) ==
    /\ search.at[r] = "idle"
    /\ search' = IF search.stored # 0
                 THEN [search EXCEPT !.returned[r] = search.stored]
                 ELSE [search EXCEPT !.at[r] = "miss"]
    /\ UNCHANGED <<schemaCheck, tags, sources, txns, items, redemptions,
                   pc, call, loc, out, fit, cache, ledgers, inbox>>

\* get_search_cache_version, second half, after version was None:
\* version = _generate_version(); cache.set(KEY, version, None); return version
GetVersionSet(r) ==
    /\ search.at[r] = "miss"
    /\ search.made < MaxTokens
    /\ search' = [search EXCEPT !.made = @ + 1,
                                !.stored = search.made + 1,
                                !.returned[r] = search.made + 1,
                                !.at[r] = "idle"]
    /\ UNCHANGED <<schemaCheck, tags, sources, txns, items, redemptions,
                   pc, call, loc, out, fit, cache, ledgers, inbox>>

\* bump_search_cache_version: cache.set(KEY, _generate_version(), None)
BumpVersion ==
    /\ search.made < MaxTokens
    /\ search' = [search EXCEPT !.made = @ + 1,
                                !.stored = search.made + 1,
                                !.returned = [r \in Callers |-> 0]]
    /\ UNCHANGED <<schemaCheck, tags, sources, txns, items, redemptions,
                   pc, call, loc, out, fit, cache, ledgers, inbox>>

NextSearch ==
    \/ \E r \in Callers : GetVersionRead(r)
    \/ \E r \in Callers : GetVersionSet(r)
    \/ BumpVersion

SpecSearch == Init /\ [][NextSearch]_vars

\* ---------------------------------------------------------------- shop rows
\* item.cost = c; item.save()
SetItemCostCascading(id, c) ==
    /\ id \in DOMAIN items
    /\ items[id].cost # c
    /\ items' = [items EXCEPT ![id].cost = c]
    /\ redemptions' = [r \in DOMAIN redemptions |->
                          IF redemptions[r].item = id
                          THEN [redemptions[r] EXCEPT !.points_cost_at_redemption = c]
                          ELSE redemptions[r]]
    /\ UNCHANGED <<schemaCheck, tags, sources, txns, pc, call, loc, out, fit, cache, units>>

\* item.cost = c; item.save(): the price of a ShopItem is changed.
SetItemCost(id, c) ==
    /\ id \in DOMAIN items
    /\ items[id].cost # c
    /\ items' = [items EXCEPT ![id].cost = c]
    /\ UNCHANGED <<schemaCheck, tags, sources, txns, redemptions,
                   pc, call, loc, out, fit, cache, units>>

\* Redemption.objects.create(user_profile=u, item=item,
\* points_cost_at_redemption=item.cost, status=COMPLETED), outside redeem_item.
CreateRedemption(u, id) ==
    /\ id \in DOMAIN items
    /\ Len(redemptions) < MaxRedemptions
    /\ redemptions' = Append(redemptions,
           [user |-> u, item |-> id,
            points_cost_at_redemption |-> items[id].cost,
            transaction |-> "none", status |-> "COMPLETED"])
    /\ UNCHANGED <<schemaCheck, tags, sources, txns, items,
                   pc, call, loc, out, fit, cache, units>>

\* One thread grants and redeems while prices change and Redemption rows are
\* also created directly.
NextShop ==
    \/ \E pts \in PointsInputs : GrantBegin(1, "u1", pts, << >>)
    \/ GrantCommit(1)
    \/ \E id \in SeqItemInputs : RedeemItem(1, "u1", id)
    \/ Respond(1)
    \/ \E c \in CostInputs : SetItemCost(1, c)
    \/ CreateRedemption("u1", 1)

SpecShop == Init /\ [][NextShop]_vars

\* Two threads grant points under tag lists that name new tags.
NextTags ==
    \E p \in Procs :
        \/ \E names \in TagRaceLists : GrantBegin(p, "u1", Py("int", 1), names)
        \/ GrantTags(p)
        \/ GrantDeadlock(p)
        \/ GrantCommit(p)
        \/ Respond(p)

SpecTags == Init /\ [][NextTags]_vars

\* ---------------------------------------------------------------- observations
\* Totals over the committed ledger, used to state the properties below.
RECURSIVE SumInitial(_, _, _)
SumInitial(srcs, u, i) ==
    IF i > Len(srcs) THEN 0
    ELSE (IF srcs[i].vis = 0 /\ srcs[i].user = u THEN srcs[i].initial ELSE 0)
         + SumInitial(srcs, u, i + 1)

RECURSIVE SumSpentOver(_, _, _)
SumSpentOver(rows, b, u) ==
    IF rows = {} THEN 0
    ELSE LET r == CHOOSE x \in rows : TRUE
         IN (IF r.user = u /\ r.type = "SPEND"
             THEN CopiesIn(r, b) * (0 - r.points) ELSE 0)
            + SumSpentOver(rows \ {r}, b, u)

SumSpent(b, u) == SumSpentOver(BagToSet(b), b, u)

\* The EARN rows of a user, as a bag.
EarnRows(b, u) ==
    [r \in {x \in BagToSet(b) : x.user = u /\ x.type = "EARN"} |-> CopiesIn(r, b)]

C3_ExactFitAllSucceed ==
    (/\ fit.phase = "running"
     /\ \A p \in Procs : pc[p] = "returned" /\ call[p].op = "spend")
    => /\ \A p \in Procs : out[p] = "ok"
       /\ Balance("u1") = 0
       /\ \A i \in DOMAIN sources : sources[i].remaining >= 0

C6_SpendRecordsWhatItTook ==
    [][\A p \in Procs :
          (/\ pc[p] = "sp_lock"
           /\ call[p].op = "spend"
           /\ pc'[p] = "returned"
           /\ out'[p] = "ok")
          => LET u == call[p].user
                 a == call[p].amt.v
                 decreased == {i \in DOMAIN sources :
                                  sources'[i].remaining < sources[i].remaining}
             IN /\ txns' = txns (+) SetToBag({[user |-> u, points |-> 0 - a,
                                                  type |-> "SPEND",
                                                  description |-> 0,
                                                  consumed |-> decreased]})
                /\ BagCardinality(txns') = BagCardinality(txns) + 1
                /\ BalanceOf(sources', u) = BalanceOf(sources, u) - a
                /\ decreased # {}
                /\ \A i \in decreased : sources[i].user = u]_vars

\* A spend that took from two sources has returned.
C6_SpentFromTwo ==
    \E p \in Procs :
        /\ pc[p] = "returned"
        /\ call[p].op = "spend"
        /\ out[p] = "ok"
        /\ \E r \in BagToSet(txns) :
              /\ r.type = "SPEND"
              /\ r.user = call[p].user
              /\ r.points = 0 - call[p].amt.v
              /\ Cardinality(r.consumed) = 2

\* C7: a successful grant_points creates exactly one PointSource of the user
\* with initial_points = remaining_points = points and exactly one EARN
\* transaction of the user with points = +points, as one atomic unit: in no
\* committed state does a source exist without its transaction or a
\* transaction without its source.
C7_GrantIsAtomic ==
    /\ [](\A u \in SeqUsers :
            Cardinality({i \in Committed(sources) : sources[i].user = u})
          = BagCardinality(EarnRows(txns, u)))
    /\ [][\A p \in Procs :
            (/\ call[p].op = "grant"
             /\ pc[p] # "returned"
             /\ pc'[p] = "returned"
             /\ out'[p] = "ok")
            => LET u == call[p].user
                   v == call[p].amt.v
                   newSources == Committed(sources') \ Committed(sources)
               IN /\ Cardinality(newSources) = 1
                  /\ txns' = txns (+) SetToBag({[user |-> u, points |-> v,
                                                    type |-> "EARN",
                                                    description |-> 0,
                                                    consumed |-> {}]})
                  /\ BagCardinality(txns') = BagCardinality(txns) + 1
                  /\ Committed(sources) \subseteq Committed(sources')
                  /\ \A i \in newSources :
                        /\ sources'[i].user = u
                        /\ sources'[i].initial = v
                        /\ sources'[i].remaining = v
                        /\ v > 0]_vars

\* A grant of the second user has returned with its source and its EARN
\* transaction committed.
C7_GrantReturned ==
    \E p \in Procs :
        /\ pc[p] = "returned"
        /\ call[p].op = "grant"
        /\ call[p].user = "u2"
        /\ out[p] = "ok"
        /\ \E i \in Committed(sources) :
              sources[i].user = "u2" /\ sources[i].initial = call[p].amt.v
        /\ \E r \in BagToSet(txns) :
              r.user = "u2" /\ r.type = "EARN" /\ r.points = call[p].amt.v

\* C8: grant_points with points zero, negative or not an integer raises
\* ValueError before anything is written: no source, no transaction and no tag
\* is created.
C8_GrantRejectsInvalid ==
    [][\A p \in Procs :
          (/\ pc[p] = "idle"
           /\ pc'[p] # "idle"
           /\ call'[p].op = "grant"
           /\ (call'[p].amt.ty \notin {"int", "bool"} \/ call'[p].amt.v <= 0))
          => /\ pc'[p] = "returned"
             /\ out'[p] = "ValueError"
             /\ sources' = sources
             /\ txns' = txns
             /\ tags' = tags]_vars

\* grant_points was called with a float and a tag name that does not exist yet.
C8_FloatRejected ==
    \E p \in Procs :
        /\ pc[p] = "returned"
        /\ call[p].op = "grant"
        /\ call[p].amt.ty = "float"
        /\ call[p].tags = <<"a">>
        /\ out[p] = "ValueError"
        /\ \A t \in tags : t.name # "a"

\* C9: spend_points with amount zero, negative or not an integer raises
\* ValueError whatever the user's balance is (with balance 0 too, and not
\* InsufficientPointsError), and no source is locked or changed and no
\* transaction is created.
C9_SpendRejectsInvalid ==
    [][\A p \in Procs :
          (/\ pc[p] = "idle"
           /\ pc'[p] # "idle"
           /\ call'[p].op = "spend"
           /\ (call'[p].amt.ty \notin {"int", "bool"} \/ call'[p].amt.v <= 0))
          => /\ pc'[p] = "returned"
             /\ out'[p] = "ValueError"
             /\ sources' = sources
             /\ txns' = txns]_vars

\* spend_points(amount = 0) has returned for a user without any points.
C9_ZeroRejectedAtBalanceZero ==
    \E p \in Procs :
        /\ pc[p] = "returned"
        /\ call[p].op = "spend"
        /\ call[p].amt.v = 0
        /\ Balance(call[p].user) = 0
        /\ out[p] = "ValueError"

C12_ItemChecksFailUnchanged ==
    [][\A p \in Procs :
          (pc[p] = "idle" /\ pc'[p] # "idle" /\ call'[p].op = "redeem")
          => LET id == call'[p].item
                 expected ==
                     IF id \notin DOMAIN items THEN "RedemptionError(not_found)"
                     ELSE IF ~items[id].is_active THEN "RedemptionError(inactive)"
                     ELSE IF items[id].limited /\ items[id].stock <= 0
                          THEN "RedemptionError(out_of_stock)"
                     ELSE "passes"
             IN expected # "passes"
                => /\ pc'[p] = "returned"
                   /\ out'[p] = expected
                   /\ sources' = sources
                   /\ txns' = txns
                   /\ items' = items
                   /\ redemptions' = redemptions]_vars

\* Each of the three failures has been returned to a user who holds points.
C12_SoldOutRefused ==
    /\ pc[1] = "returned" /\ call[1].op = "redeem" /\ call[1].item = 2
    /\ out[1] = "RedemptionError(out_of_stock)"
    /\ Balance("u1") >= items[2].cost
    /\ ~items[3].is_active /\ 99999 \notin DOMAIN items

\* C13: when the user's balance is less than item.cost for an existing, active,
\* in-stock item, redeem_item raises InsufficientPointsError (the error of
\* spend_points, not wrapped), and stock, every PointSource, the transaction
\* log and the Redemption rows are as before the call.
C13_InsufficientPropagates ==
    [][\A p \in Procs :
          (/\ pc[p] # "returned" /\ pc'[p] = "returned"
           /\ call'[p].op = "redeem"
           /\ call'[p].item \in DOMAIN items
           /\ items[call'[p].item].is_active
           /\ ~(items[call'[p].item].limited /\ items[call'[p].item].stock <= 0)
           /\ Balance(call'[p].user) < items[call'[p].item].cost)
          => /\ out'[p] = "InsufficientPointsError"
             /\ txns' = txns
             /\ \A i \in DOMAIN sources :
                   sources'[i].remaining = sources[i].remaining
             /\ items' = items
             /\ redemptions' = redemptions]_vars

\* Number of SPEND transactions whose description is that of a redemption of
\* item id.
RedeemSpends(b, id) ==
    BagCardinality([r \in {x \in BagToSet(b) :
                              x.type = "SPEND" /\ x.description = id}
                       |-> CopiesIn(r, b)])

RedemptionsOf(reds, id) ==
    Cardinality({r \in DOMAIN reds : reds[r].item = id})

C15_RedeemSucceeds ==
    [][\A p \in Procs :
          (/\ pc[p] # "returned" /\ pc'[p] = "returned"
           /\ call'[p].op = "redeem"
           /\ call'[p].item \in DOMAIN items
           /\ items[call'[p].item].is_active
           /\ ~(items[call'[p].item].limited /\ items[call'[p].item].stock <= 0)
           /\ Balance(call'[p].user) >= items[call'[p].item].cost)
          => LET id == call'[p].item
                 u == call'[p].user
                 cost == items[id].cost
             IN /\ out'[p] = "ok"
                /\ Len(redemptions') = Len(redemptions) + 1
                /\ LET r == redemptions'[Len(redemptions')]
                   IN /\ r.user = u /\ r.item = id
                      /\ r.status = "COMPLETED"
                      /\ r.points_cost_at_redemption = cost
                      /\ r.transaction.type = "SPEND"
                      /\ r.transaction.points = 0 - cost
                      /\ CopiesIn(r.transaction, txns') = CopiesIn(r.transaction, txns) + 1
                /\ BagCardinality(txns') = BagCardinality(txns) + 1
                /\ BalanceOf(sources', u) = Balance(u) - cost
                /\ items'[id].limited = items[id].limited
                /\ items'[id].stock = IF items[id].limited THEN items[id].stock - 1
                                      ELSE items[id].stock]_vars

\* remaining_points of the user's sources that carry tag t, summed.
RECURSIVE SumTagged(_, _, _, _)
SumTagged(srcs, u, t, i) ==
    IF i > Len(srcs) THEN 0
    ELSE (IF srcs[i].vis = 0 /\ srcs[i].user = u /\ t \in srcs[i].tags
          THEN srcs[i].remaining ELSE 0) + SumTagged(srcs, u, t, i + 1)

\* C16: redeem_item spends with priority tag equal to the first of the item's
\* allowed_tags (none when the item has none): for an item with allowed tags
\* [T1, T2, ...] that the user can pay, the cost is taken from the user's
\* sources tagged T1 before any other source, whatever T2 is.
C16_RedeemSpendsFirstAllowedTag ==
    [][\A p \in Procs :
          (/\ pc[p] # "returned" /\ pc'[p] = "returned"
           /\ call'[p].op = "redeem"
           /\ call'[p].item \in DOMAIN items
           /\ items[call'[p].item].is_active
           /\ ~(items[call'[p].item].limited /\ items[call'[p].item].stock <= 0)
           /\ items[call'[p].item].allowed # << >>
           /\ Balance(call'[p].user) >= items[call'[p].item].cost)
          => LET u == call'[p].user
                 cost == items[call'[p].item].cost
                 T1 == items[call'[p].item].allowed[1]
                 had == SumTagged(sources, u, T1, 1)
             IN /\ out'[p] = "ok"
                /\ SumTagged(sources', u, T1, 1) = IF had >= cost THEN had - cost ELSE 0
                /\ had >= cost
                      => \A i \in DOMAIN sources :
                            T1 \notin sources[i].tags
                               => sources'[i].remaining = sources[i].remaining]_vars

\* No two Tag rows, committed or not, share a name.
TagNamesUnique == \A t1, t2 \in tags : t1.name = t2.name => t1 = t2

\* C18: concurrent first use of a tag name is race-safe: concurrent
\* grant_points calls that name a tag not yet in the registry all succeed, in
\* no state do two Tags share a name, and every tag name attached to a
\* committed source is the name of exactly one committed Tag.
C18_TagFirstUseRaceSafe ==
    /\ TagNamesUnique
    /\ \A p \in Procs :
          (pc[p] = "returned" /\ call[p].op = "grant" /\ ~GrantInvalid(call[p].amt))
          => out[p] = "ok"
    /\ \A i \in Committed(sources) : \A n \in sources[i].tags :
          Cardinality({t \in tags : t.name = n /\ t.vis = 0}) = 1

\* C19: grant_points resolves each entry of tag_names to the existing Tag whose
\* slug or name equals it exactly and creates a Tag only when none matches:
\* when the grant returns, the new source's tag set is exactly the set of
\* resolved tags (a name listed twice is attached once), every Tag the call
\* created bears a listed name that matched no Tag existing before, and the
\* number of Tags created equals the number of distinct listed names that
\* matched no slug or name of another Tag.
C19_TagsResolvedOrCreated ==
    [][\A p \in Procs :
          (/\ pc[p] = "g_commit" /\ pc'[p] = "returned" /\ out'[p] = "ok")
          => LET names == Range(call[p].tags)
                 seen == {t \in tags : t.vis \in {0, p}}
                 created == {t \in tags : t.vis = p}
                 src == sources[CHOOSE i \in DOMAIN sources : sources[i].vis = p]
                 Resolved(x) == {t \in seen : t.slug = x \/ t.name = x}
             IN /\ \A x \in names : Cardinality(Resolved(x)) = 1
                /\ src.tags = {t.name : t \in UNION {Resolved(x) : x \in names}}
                /\ \A t \in created :
                      /\ t.name \in names
                      /\ t.slug = IF Slugify(t.name) = "" THEN t.name ELSE Slugify(t.name)
                      /\ ~\E e \in tags :
                            e.vis = 0 /\ (e.slug = t.name \/ e.name = t.name)
                /\ Cardinality(created)
                      = Cardinality({x \in names :
                            \A t \in Resolved(x) : t \in created /\ t.name = x})
                /\ {t \in tags' : t.vis = 0}
                      = {t \in tags : t.vis = 0} \cup {[t EXCEPT !.vis = 0] : t \in created}]_vars

\* A grant that listed a new name, the slug of that name and a name without
\* slug has returned: two Tags were created and the source carries both.
C19_NewNameAndItsSlug ==
    /\ pc[1] = "returned" /\ out[1] = "ok" /\ call[1].op = "grant"
    /\ call[1].tags = <<"A", "a", "zh">>
    /\ sources[Len(sources)].tags = {"A", "zh"}
    /\ {t.name : t \in tags} = {"d1", "d2", "A", "zh"}
    /\ Len(sources) = 1

\* C20: the ledger is append-only under grant_points, spend_points and
\* redeem_item: no PointSource and no PointTransaction is ever deleted, an
\* existing PointTransaction's points, type and consumed_sources never change,
\* a source's initial_points and owner never change, and a source's
\* remaining_points never increases.
C20_LedgerAppendOnly ==
    [][/\ \A r \in BagToSet(txns) : CopiesIn(r, txns') >= CopiesIn(r, txns)
       /\ \A i \in Committed(sources) :
             /\ i \in DOMAIN sources'
             /\ sources'[i].vis = 0
             /\ sources'[i].user = sources[i].user
             /\ sources'[i].initial = sources[i].initial
             /\ sources'[i].remaining <= sources[i].remaining]_vars

\* Points have been granted and spent, a source is used up, and a spend has
\* just been refused.
C20_SpentAndRefused ==
    /\ pc[1] = "returned" /\ call[1].op = "spend"
    /\ out[1] = "InsufficientPointsError"
    /\ \E i \in Committed(sources) : sources[i].remaining = 0 /\ sources[i].initial > 0
    /\ \E r \in BagToSet(txns) : r.type = "SPEND"
    /\ \E r \in BagToSet(txns) : r.type = "EARN"

\* C17: for every user, at all times after any sequence of grant_points and
\* spend_points calls, total_points equals the sum of remaining_points over the
\* user's sources, also when it is served from the per-user points cache (a
\* value not in the cache is computed as that sum).
C17_TotalPointsIsBalance ==
    \A u \in SeqUsers :
        (cache.stored[u].set /\ \A p \in Procs : pc[p] \in {"idle", "returned"})
        => cache.stored[u].v = Balance(u)

\* C21: a Redemption's points_cost_at_redemption is fixed at creation: no
\* later change of the ShopItem's cost and no later redeem_item call changes
\* the points_cost_at_redemption of an existing Redemption.
C21_RedemptionCostFixed ==
    [][\A r \in DOMAIN redemptions :
          /\ r \in DOMAIN redemptions'
          /\ redemptions'[r].points_cost_at_redemption
                = redemptions[r].points_cost_at_redemption]_vars

\* A Redemption exists whose item has since been given another price, and a
\* later redeem_item call for that item has returned.
C21_RepricedAfterRedemption ==
    /\ pc[1] = "returned" /\ call[1].op = "redeem"
    /\ \E r \in DOMAIN redemptions :
          /\ redemptions[r].item = call[1].item
          /\ redemptions[r].points_cost_at_redemption # items[call[1].item].cost
          /\ call[1].amt.v = items[call[1].item].cost

\* C22: spend_points is deterministic: run from two copies of the same ledger
\* state with the same user, amount and priority tag, it consumes the same
\* set of sources and leaves the same remaining_points on every source, also
\* when two candidate sources have the same created_at.
C22_SpendDeterministic ==
    (ledgers.phase = "run" /\ ledgers.res[1].done /\ ledgers.res[2].done)
    => /\ Range(ledgers.res[1].consumed) = Range(ledgers.res[2].consumed)
       /\ ledgers.res[1].rem = ledgers.res[2].rem

\* The step is a call of method op on message m.
Called(op, m) ==
    /\ inbox'.last.n # inbox.last.n
    /\ inbox'.last.op = op
    /\ inbox'.last.m = m

\* C23: UserMessage.mark_as_read is idempotent: the first call on an unread
\* message sets is_read and read_at, and any further call on the already-read
\* message changes neither is_read nor read_at (read_at keeps the time of the
\* first read); likewise mark_as_unread on an unread message and soft_delete
\* on a deleted message write nothing.
C23_MarkAsReadIdempotent ==
    [][\A m \in MessageIds :
          LET row == inbox.rows[m]
              unchanged == inbox'.rows = inbox.rows /\ inbox'.last.saved = << >>
          IN /\ (Called("mark_as_read", m) /\ ~row.is_read)
                   => /\ inbox'.rows[m] = [row EXCEPT !.is_read = TRUE,
                                                      !.read_at = inbox.now]
                      /\ inbox'.rows[m].read_at # 0
             /\ (Called("mark_as_read", m) /\ row.is_read) => unchanged
             /\ (Called("mark_as_unread", m) /\ ~row.is_read) => unchanged
             /\ (Called("soft_delete", m) /\ row.is_deleted) => unchanged]_vars

\* mark_as_read has just been called on a message read at an earlier time,
\* and the message keeps the time of its first read.
C23_ReadAgainLater ==
    /\ inbox.last.op = "mark_as_read"
    /\ inbox.last.saved = << >>
    /\ inbox.rows[inbox.last.m].is_read
    /\ inbox.rows[inbox.last.m].read_at # 0
    /\ inbox.rows[inbox.last.m].read_at < inbox.now

\* Thread p has run the statement of a tier and is about to run its loop.
AtTier(p) ==
    /\ pc[p] = "sp_lock"
    /\ loc[p].scan = << >>
    /\ loc[p].stage \in {1, 2, 3}

\* C24: in any execution of spend_points that passed the balance pre-check,
\* also when interleaved with other spends and grants, the amount still to
\* deduct is exactly 0 after the three tiers: the "amount_to_deduct > 0" error
\* branch is never taken.
C24_NothingLeftToDeduct ==
    \A p \in Procs :
        /\ out[p] # "Exception"
        /\ AtTier(p) =>
              LET r == DeductLoop(loc[p].got, loc[p].needed, sources, loc[p].consumed)
              IN (~r.err /\ NextStage(loc[p].stage, r.needed, call[p].prio) > 3)
                     => r.needed = 0

\* A spend that passed the pre-check is about to leave the fallback tier with
\* nothing left to deduct while the other thread is in the middle of a call.
C24_LastTierDoneWhileOtherRuns ==
    \E p, q \in Procs :
        /\ p # q
        /\ AtTier(p) /\ loc[p].stage = 3 /\ loc[p].got # << >>
        /\ ~DeductLoop(loc[p].got, loc[p].needed, sources, loc[p].consumed).err
        /\ pc[q] \notin {"idle", "returned"}

RECURSIVE LedgerTotals(_, _)
LedgerTotals(rows, b) ==
    IF rows = {} THEN [u \in SeqUsers |-> [points |-> 0, earned |-> 0]]
    ELSE LET r == CHOOSE x \in rows : TRUE
             t == LedgerTotals(rows \ {r}, b)
             n == CopiesIn(r, b) * r.points
         IN [t EXCEPT ![r.user] =
                [points |-> @.points + n,
                 earned |-> @.earned + (IF r.type = "EARN" THEN n ELSE 0)]]

\* C27: ledger reconciliation: in every committed state reached by
\* grant_points, spend_points and redeem_item alone, for every user the sum of
\* points over the user's PointTransactions equals the sum of
\* remaining_points over the user's sources, and the sum of initial_points
\* equals the sum of the EARN transactions.
C27_LedgerReconciles ==
    LET t == LedgerTotals(BagToSet(txns), txns)
    IN \A u \in SeqUsers :
          /\ t[u].points = Balance(u)
          /\ SumInitial(sources, u, 1) = t[u].earned

\* A committed ledger after grants and a spend that used up one source of u1
\* and left another partly spent.
C27_GrantedAndSpent ==
    /\ pc[1] = "idle"
    /\ SumSpent(txns, "u1") > 0
    /\ \E i, j \in Committed(sources) :
          /\ sources[i].user = "u1" /\ sources[i].remaining = 0
          /\ sources[j].user = "u1" /\ 0 < sources[j].remaining
          /\ sources[j].remaining < sources[j].initial

C29_OtherUsersUntouched ==
    [][LET u == call'[1].user
       IN /\ \A i \in DOMAIN sources :
                sources[i].user # u => sources'[i] = sources[i]
          /\ \A r \in BagToSet(txns) \cup BagToSet(txns') :
                r.user # u => CopiesIn(r, txns') = CopiesIn(r, txns)
          /\ call'[1].op = "grant" =>
                /\ \A i \in Committed(sources) : sources'[i] = sources[i]
                /\ \A r \in BagToSet(txns) :
                      CopiesIn(r, txns') >= CopiesIn(r, txns)]_vars

\* A spend of u1 has just committed while u2 owns a source with points left
\* and an EARN transaction.
C29_SpentBesideOtherUser ==
    /\ pc[1] = "returned" /\ call[1].op = "spend" /\ call[1].user = "u1"
    /\ out[1] = "ok"
    /\ \E i \in Committed(sources) : sources[i].user = "u2" /\ sources[i].remaining > 0
    /\ \E r \in BagToSet(txns) : r.user = "u2" /\ r.type = "EARN"

\* C30: between two calls of bump_search_cache_version every call of
\* get_search_cache_version returns the same version token, also when several
\* callers race on an empty cache: a token returned to a caller since the last
\* bump is the token stored in the cache (and so the one later callers get).
C30_OneVersionBetweenBumps ==
    \A r \in Callers :
        search.returned[r] # 0 => search.returned[r] = search.stored

====
